---- MODULE Spec2Model ----
(***************************************************************************)
(* A model of orijtech/gcla: the webhook subscription client               *)
(* (Client, NewClientFromEnv, SetHTTPRoundTripper, SubscribeToRepo,        *)
(* doHTTPReq, httpClient) and the /ping receiver (pong, parseRequest).     *)
(*                                                                         *)
(* JSON texts are modelled by their parse: a document is either            *)
(* syntactically invalid or a value tree.  Go values that may be nil       *)
(* (pointers, slices) are Nil or Ptr(v).                                   *)
(***************************************************************************)
EXTENDS Integers, Sequences, FiniteSets, TLC

\* ------------------------------------------------------------------ bounds

\* Number of goroutines calling SubscribeToRepo on the one client.
NCalls == 2

\* Number of goroutines calling SetHTTPRoundTripper on the one client.
NSetters == 1

\* Number of connections the /ping receiver serves at once.
NConns == 2

\* ------------------------------------------------------- Go value helpers

Nil == [nil |-> TRUE]

Ptr(x) == [nil |-> FALSE, v |-> x]

\* ------------------------------------------------------------ JSON values

JNull == [t |-> "null"]

JBool(b) == [t |-> "bool", b |-> b]

\* An integer number literal.
JNum(n) == [t |-> "num", n |-> n]

\* A number literal with a fractional part, such as 1.5.
JFrac == [t |-> "frac"]

JStr(s) == [t |-> "str", s |-> s]

JArr(a) == [t |-> "arr", a |-> a]

\* An object is the sequence of its members, in the order of the text.
JObj(o) == [t |-> "obj", o |-> o]

KV(k, x) == [k |-> k, v |-> x]

\* A text that is not JSON, with the error encoding/json reports for it.
JBad(e) == [ok |-> FALSE, err |-> e]

JDoc(x) == [ok |-> TRUE, v |-> x]

\* ------------------------------------------------------- the record types

PayloadConfigZero == [URL |-> "", ContentType |-> ""]

\* new(Subscription): every field at its Go zero value.
blankSubscription ==
    [ID |-> 0, URL |-> "", TestURL |-> "", PingURL |-> "", Name |-> "",
     Events |-> Nil, Active |-> FALSE, Config |-> Nil,
     UpdatedAt |-> Nil, CreatedAt |-> Nil]

errBlankSubscription == "no subscription could be parsed"

baseURL == "https://api.github.com"

gclaEnvKey == "GCLA_GITHUB_API_KEY"

\* ----------------------------------------------------- encoding/json decode

\* encoding/json matches an object key to a field by its tag, exactly or
\* under case folding.
FoldKey(k) ==
    CASE k = "ID" -> "id"
      [] k = "Name" -> "name"
      [] k = "Zen" -> "zen"
      [] OTHER -> k

\* The name a field's json tag gives it.
JSONName(f) ==
    CASE f = "ID" -> "id"
      [] f = "URL" -> "url"
      [] f = "TestURL" -> "test_url"
      [] f = "PingURL" -> "ping_url"
      [] f = "Name" -> "name"
      [] f = "Events" -> "events"
      [] f = "Active" -> "active"
      [] f = "Config" -> "config"
      [] f = "UpdatedAt" -> "updated_at"
      [] f = "CreatedAt" -> "created_at"
      [] f = "Type" -> "type"
      [] f = "AppID" -> "app_id"
      [] f = "ContentType" -> "content_type"
      [] f = "Zen" -> "zen"
      [] f = "HookID" -> "hook_id"
      [] OTHER -> "hook"

\* The Go type of the field f of the struct named struct, as
\* reflect.Type.String prints it.
FieldType(struct, f) ==
    CASE f = "ID" -> "uint64"
      [] f = "Active" -> "bool"
      [] f = "Events" -> IF struct = "Hook" THEN "[]string" ELSE "[]gcla.Event"
      [] f = "Config" -> "gcla.PayloadConfig"
      [] f = "Type" -> "gcla.Type"
      [] f = "ContentType" -> "gcla.ContentType"
      [] f = "Hook" -> "gcla.Hook"
      [] OTHER -> "string"

\* The type of the elements of the Events of the struct named struct.
EventType(struct) == IF struct = "Hook" THEN "string" ELSE "gcla.Event"

\* time.Time.UnmarshalJSON accepts RFC 3339 strings only.
IsRFC3339(s) == s \in {"2017-06-01T10:00:00Z", "2017-06-02T11:30:00Z"}

\* The zero time.Time, as an RFC 3339 text.
ZeroTime == "0001-01-01T00:00:00Z"

\* UnmarshalTypeError.Error for a value inside a struct: struct is the name
\* of the innermost struct, field the path of json names from the root.
TypeErr(value, struct, field, type) ==
    "json: cannot unmarshal " \o value \o " into Go struct field " \o struct \o "." \o field
        \o " of type " \o type

\* UnmarshalTypeError.Error for the value at the root.
ValueTypeErr(value, type) ==
    "json: cannot unmarshal " \o value \o " into Go value of type " \o type

\* time.ParseError.Error for a string that does not start with a year of
\* four digits: the whole string fails against the layout element 2006.
TimeErr(s) ==
    "parsing time \"" \o s \o "\" as \"2006-01-02T15:04:05Z07:00\": cannot parse \""
        \o s \o "\" as \"2006\""

TimeNotString == "Time.UnmarshalJSON: input is not a JSON string"

JKind(x) ==
    CASE x.t = "num" -> "number"
      [] x.t = "frac" -> "number"
      [] x.t = "str" -> "string"
      [] x.t = "bool" -> "bool"
      [] x.t = "arr" -> "array"
      [] x.t = "obj" -> "object"
      [] OTHER -> "null"

\* The text of a number literal.
Literal(x) == IF x.t = "frac" THEN "1.5" ELSE ToString(x.n)

\* The value an UnmarshalTypeError names when the target is an integer: a
\* number that does not fit is named with its literal.
UintKind(x) == IF x.t \in {"num", "frac"} THEN "number " \o Literal(x) ELSE JKind(x)

\* The error context of the decoder: the struct being decoded and the path
\* of json names that leads to it, each followed by a dot.
Ctx(struct, prefix) == [Struct |-> struct, Prefix |-> prefix]

\* The UnmarshalTypeError for the value named value met at the field f.
FieldErr(ctx, f, value) ==
    TypeErr(value, ctx.Struct, ctx.Prefix \o JSONName(f), FieldType(ctx.Struct, f))

\* The state of a decode: the record so far, the first saved error (or the
\* error that aborted the decode), whether an Unmarshaler's error has
\* aborted it, and the backing arrays of the record's Events and of its
\* Hook's Events, which outlive a truncation of the slice.
DState(rec, err, abort) ==
    [rec |-> rec, err |-> err, abort |-> abort, back |-> <<>>, hback |-> <<>>]

\* d.saveError keeps the first error.
SaveErr(st, e) == IF st.err = "" THEN [st EXCEPT !.err = e] ELSE st

\* An error returned by an Unmarshaler ends the decode and is the error
\* Unmarshal returns, whatever was saved before.
Abort(st, e) == [st EXCEPT !.err = e, !.abort = TRUE]

\* A string field: a JSON string is stored, null is ignored, anything else
\* is an UnmarshalTypeError (saved; decoding goes on).
StoreString(st, f, x, ctx) ==
    CASE x.t = "str" -> [st EXCEPT !.rec[f] = x.s]
      [] x.t = "null" -> st
      [] OTHER -> SaveErr(st, FieldErr(ctx, f, JKind(x)))

StoreBool(st, f, x, ctx) ==
    CASE x.t = "bool" -> [st EXCEPT !.rec[f] = x.b]
      [] x.t = "null" -> st
      [] OTHER -> SaveErr(st, FieldErr(ctx, f, JKind(x)))

\* A uint64 field: a non-negative integer literal is stored; a negative or
\* fractional number, or another kind, is an UnmarshalTypeError.
StoreUint(st, f, x, ctx) ==
    CASE x.t = "num" /\ x.n >= 0 -> [st EXCEPT !.rec[f] = x.n]
      [] x.t = "null" -> st
      [] OTHER -> SaveErr(st, FieldErr(ctx, f, UintKind(x)))

\* A *time.Time field: null makes the pointer nil; for any other value the
\* pointer is allocated if nil and time.Time.UnmarshalJSON is called.  An
\* RFC 3339 string is stored; a string that does not parse leaves the zero
\* Time, a value that is no string leaves the Time as it was, and either
\* error stops the decode at once.
StoreTime(st, f, x) ==
    LET cur == IF st.rec[f].nil THEN ZeroTime ELSE st.rec[f].v
    IN  CASE x.t = "null" -> [st EXCEPT !.rec[f] = Nil]
          [] x.t = "str" /\ IsRFC3339(x.s) -> [st EXCEPT !.rec[f] = Ptr(x.s)]
          [] x.t = "str" -> Abort([st EXCEPT !.rec[f] = Ptr(ZeroTime)], TimeErr(x.s))
          [] OTHER -> Abort([st EXCEPT !.rec[f] = Ptr(cur)], TimeNotString)

\* reflect.Value.Grow(1) on a full slice of strings: the capacity doubles.
NextCap(c) == IF c = 0 THEN 1 ELSE 2 * c

\* The elements of an array decoded into the backing array es.back from the
\* index k on: the array grows when it is full, its old elements copied and
\* the new ones ""; a string is stored, null leaves the element as it is,
\* another kind is a saved type error with the element left as it is.
RECURSIVE EventElems(_, _, _, _)
EventElems(es, a, k, ctx) ==
    IF k > Len(a) THEN es
    ELSE LET grown == IF k > Len(es.back)
                      THEN es.back \o [n \in 1..(NextCap(Len(es.back)) - Len(es.back)) |-> ""]
                      ELSE es.back
             x     == a[k]
         IN  EventElems(
                 [back |-> IF x.t = "str" THEN [grown EXCEPT ![k] = x.s] ELSE grown,
                  err  |-> IF x.t \in {"str", "null"} \/ es.err # "" THEN es.err
                           ELSE TypeErr(JKind(x), ctx.Struct, ctx.Prefix \o "events",
                                        EventType(ctx.Struct))],
                 a, k + 1, ctx)

\* An Events field: an array is decoded into the slice the field holds and
\* the slice cut to the array's length (an empty array makes a new empty,
\* non-nil slice); null makes the slice nil.
StoreEvents(st, f, x, ctx) ==
    CASE x.t = "arr" ->
            IF x.a = <<>> THEN [st EXCEPT !.rec[f] = Ptr(<<>>), !.back = <<>>]
            ELSE LET es == EventElems([back |-> st.back, err |-> st.err], x.a, 1, ctx)
                 IN  [st EXCEPT !.rec[f] = Ptr(SubSeq(es.back, 1, Len(x.a))),
                                !.back = es.back, !.err = es.err]
      [] x.t = "null" -> [st EXCEPT !.rec[f] = Nil, !.back = <<>>]
      [] OTHER -> SaveErr(st, FieldErr(ctx, f, JKind(x)))

PayloadConfigField(k) ==
    CASE FoldKey(k) = "url" -> "URL"
      [] FoldKey(k) = "content_type" -> "ContentType"
      [] OTHER -> ""

RECURSIVE DecodePayloadConfig(_, _, _)
DecodePayloadConfig(st, o, ctx) ==
    IF o = <<>> THEN st
    ELSE LET f == PayloadConfigField(Head(o).k)
         IN  DecodePayloadConfig(IF f = "" THEN st ELSE StoreString(st, f, Head(o).v, ctx),
                                 Tail(o), ctx)

\* A *PayloadConfig field: null makes the pointer nil; for any other value
\* the pointer is allocated if nil, and an object is decoded into it.
StoreConfig(st, f, x, ctx) ==
    IF x.t = "null" THEN [st EXCEPT !.rec[f] = Nil]
    ELSE LET cur == IF st.rec[f].nil THEN PayloadConfigZero ELSE st.rec[f].v
             in  == IF x.t = "obj"
                    THEN DecodePayloadConfig(DState(cur, st.err, FALSE), x.o,
                                             Ctx("PayloadConfig", ctx.Prefix \o "config."))
                    ELSE SaveErr(DState(cur, st.err, FALSE), FieldErr(ctx, f, JKind(x)))
         IN  [st EXCEPT !.rec[f] = Ptr(in.rec), !.err = in.err]

\* The field of Subscription (and of SubscribeRequest) a key names, or "".
SubscriptionField(k) ==
    CASE FoldKey(k) = "id" -> "ID"
      [] FoldKey(k) = "url" -> "URL"
      [] FoldKey(k) = "test_url" -> "TestURL"
      [] FoldKey(k) = "ping_url" -> "PingURL"
      [] FoldKey(k) = "name" -> "Name"
      [] FoldKey(k) = "events" -> "Events"
      [] FoldKey(k) = "active" -> "Active"
      [] FoldKey(k) = "config" -> "Config"
      [] FoldKey(k) = "updated_at" -> "UpdatedAt"
      [] FoldKey(k) = "created_at" -> "CreatedAt"
      [] OTHER -> ""

StoreSubscriptionField(st, f, x, ctx) ==
    CASE f = "ID" -> StoreUint(st, f, x, ctx)
      [] f \in {"URL", "TestURL", "PingURL", "Name"} -> StoreString(st, f, x, ctx)
      [] f = "Events" -> StoreEvents(st, f, x, ctx)
      [] f = "Active" -> StoreBool(st, f, x, ctx)
      [] f = "Config" -> StoreConfig(st, f, x, ctx)
      [] f \in {"UpdatedAt", "CreatedAt"} -> StoreTime(st, f, x)
      [] OTHER -> st

\* The members of an object, in order; unknown keys are skipped, a later
\* duplicate is decoded into what the earlier left, an aborted decode stops.
RECURSIVE DecodeSubscriptionMembers(_, _, _)
DecodeSubscriptionMembers(st, o, ctx) ==
    IF o = <<>> \/ st.abort THEN st
    ELSE DecodeSubscriptionMembers(
             StoreSubscriptionField(st, SubscriptionField(Head(o).k), Head(o).v, ctx),
             Tail(o), ctx)

\* json.Unmarshal(blob, subs) with subs = new(Subscription): the error ("" for
\* nil) and the record as the decode left it.
UnmarshalSubscription(doc) ==
    IF ~doc.ok THEN [err |-> doc.err, rec |-> blankSubscription]
    ELSE CASE doc.v.t = "null" -> [err |-> "", rec |-> blankSubscription]
           [] doc.v.t = "obj" ->
                LET st == DecodeSubscriptionMembers(DState(blankSubscription, "", FALSE),
                                                    doc.v.o, Ctx("Subscription", ""))
                IN  [err |-> st.err, rec |-> st.rec]
           [] OTHER -> [err |-> ValueTypeErr(JKind(doc.v), "gcla.Subscription"),
                        rec |-> blankSubscription]

\* ----------------------------------------------------- the /ping payload

\* new(Hook): Subscription's fields, Type and AppID.
blankHook ==
    [ID |-> 0, URL |-> "", TestURL |-> "", PingURL |-> "", Name |-> "",
     Events |-> Nil, Active |-> FALSE, Config |-> Nil,
     UpdatedAt |-> Nil, CreatedAt |-> Nil, Type |-> "", AppID |-> ""]

HookField(k) ==
    CASE FoldKey(k) = "type" -> "Type"
      [] FoldKey(k) = "app_id" -> "AppID"
      [] OTHER -> SubscriptionField(k)

RECURSIVE DecodeHookMembers(_, _, _)
DecodeHookMembers(st, o, ctx) ==
    IF o = <<>> \/ st.abort THEN st
    ELSE LET f == HookField(Head(o).k)
         IN  DecodeHookMembers(IF f \in {"Type", "AppID"}
                               THEN StoreString(st, f, Head(o).v, ctx)
                               ELSE StoreSubscriptionField(st, f, Head(o).v, ctx),
                               Tail(o), ctx)

\* new(pingPayload)
blankPing == [Zen |-> "", HookID |-> "", Hook |-> Nil]

PingField(k) ==
    CASE FoldKey(k) = "zen" -> "Zen"
      [] FoldKey(k) = "hook_id" -> "HookID"
      [] FoldKey(k) = "hook" -> "Hook"
      [] OTHER -> ""

\* The *Hook field of pingPayload.
StoreHook(st, f, x, ctx) ==
    IF x.t = "null" THEN [st EXCEPT !.rec[f] = Nil, !.hback = <<>>]
    ELSE LET cur == IF st.rec[f].nil THEN blankHook ELSE st.rec[f].v
             in  == IF x.t = "obj"
                    THEN DecodeHookMembers([DState(cur, st.err, FALSE) EXCEPT !.back = st.hback],
                                           x.o, Ctx("Hook", ctx.Prefix \o "hook."))
                    ELSE SaveErr([DState(cur, st.err, FALSE) EXCEPT !.back = st.hback],
                                 FieldErr(ctx, f, JKind(x)))
         IN  [st EXCEPT !.rec[f] = Ptr(in.rec), !.err = in.err, !.abort = in.abort,
                        !.hback = in.back]

RECURSIVE DecodePingMembers(_, _, _)
DecodePingMembers(st, o, ctx) ==
    IF o = <<>> \/ st.abort THEN st
    ELSE LET f == PingField(Head(o).k)
         IN  DecodePingMembers(CASE f \in {"Zen", "HookID"} -> StoreString(st, f, Head(o).v, ctx)
                                 [] f = "Hook" -> StoreHook(st, f, Head(o).v, ctx)
                                 [] OTHER -> st,
                               Tail(o), ctx)

\* json.Unmarshal(blob, pPayload) with pPayload = new(pingPayload).
UnmarshalPing(doc) ==
    IF ~doc.ok THEN [err |-> doc.err, rec |-> blankPing]
    ELSE CASE doc.v.t = "null" -> [err |-> "", rec |-> blankPing]
           [] doc.v.t = "obj" ->
                LET st == DecodePingMembers(DState(blankPing, "", FALSE), doc.v.o,
                                            Ctx("pingPayload", ""))
                IN  [err |-> st.err, rec |-> st.rec]
           [] OTHER -> [err |-> ValueTypeErr(JKind(doc.v), "main.pingPayload"),
                        rec |-> blankPing]

\* ----------------------------------------------------- encoding/json encode

RECURSIVE EventStrings(_)
EventStrings(ev) == IF ev = <<>> THEN <<>> ELSE <<JStr(Head(ev))>> \o EventStrings(Tail(ev))

\* A PayloadConfig: url and content_type, each omitted when empty.
MarshalPayloadConfig(pc) ==
    JObj((IF pc.URL = "" THEN <<>> ELSE <<KV("url", JStr(pc.URL))>>)
         \o (IF pc.ContentType = "" THEN <<>> ELSE <<KV("content_type", JStr(pc.ContentType))>>))

\* json.Marshal(rsr.HookSubscription): a nil pointer encodes as null; the
\* members follow the struct's order and every one is omitempty (an empty
\* string, false, a slice of length 0 and a nil pointer are left out).
MarshalSubscribeRequest(hs) ==
    IF hs.nil THEN JDoc(JNull)
    ELSE JDoc(JObj(
           (IF hs.v.Name = "" THEN <<>> ELSE <<KV("name", JStr(hs.v.Name))>>)
        \o (IF ~hs.v.Active THEN <<>> ELSE <<KV("active", JBool(TRUE))>>)
        \o (IF hs.v.Events.nil \/ hs.v.Events.v = <<>> THEN <<>>
            ELSE <<KV("events", JArr(EventStrings(hs.v.Events.v)))>>)
        \o (IF hs.v.Config.nil THEN <<>>
            ELSE <<KV("config", MarshalPayloadConfig(hs.v.Config.v))>>)))

\* ------------------------------------------------------------ sample inputs

T1 == "2017-06-01T10:00:00Z"

T2 == "2017-06-02T11:30:00Z"

\* Response bodies, by what they parse to.
Bodies ==
    << JBad("unexpected end of JSON input"),
       JBad("invalid character '<' looking for beginning of value"),
       JDoc(JObj(<<>>)),
       JDoc(JNull),
       JDoc(JObj(<< KV("id", JNum(1)), KV("url", JStr("https://api.github.com/repos/orijtech/gcla/hooks/1")),
                    KV("test_url", JStr("https://api.github.com/repos/orijtech/gcla/hooks/1/test")),
                    KV("ping_url", JStr("https://api.github.com/repos/orijtech/gcla/hooks/1/pings")),
                    KV("name", JStr("web")), KV("events", JArr(<<JStr("push"), JStr("issues")>>)),
                    KV("active", JBool(TRUE)),
                    KV("config", JObj(<<KV("url", JStr("https://hooks.orijtech/gcla-test")),
                                        KV("content_type", JStr("json"))>>)),
                    KV("updated_at", JStr(T2)), KV("created_at", JStr(T1)) >>)),
       JDoc(JObj(<< KV("events", JArr(<<>>)) >>)),
       JDoc(JObj(<< KV("config", JObj(<<>>)) >>)),
       JDoc(JObj(<< KV("id", JStr("7")), KV("name", JStr("web")) >>)),
       JDoc(JObj(<< KV("id", JNum(0)), KV("name", JStr("")), KV("active", JBool(FALSE)),
                    KV("events", JNull), KV("message", JStr("ok")) >>)),
       JDoc(JObj(<< KV("ID", JNum(7)) >>)),
       JDoc(JObj(<< KV("id", JNum(3)), KV("created_at", JStr("yesterday")) >>)),
       JDoc(JArr(<<>>)),
       JDoc(JObj(<< KV("id", JFrac) >>)),
       JDoc(JObj(<< KV("name", JStr("a")), KV("name", JStr("b")), KV("active", JBool(TRUE)) >>)) >>

EmptyBody == 1

ValidBody == 5

\* json.Unmarshal of each sample body into a new Subscription.
Decoded == [b \in 1..Len(Bodies) |-> UnmarshalSubscription(Bodies[b])]

\* /ping request bodies.
PingBodies ==
    << JBad("unexpected end of JSON input"),
       JBad("invalid character 'z' looking for beginning of value"),
       JDoc(JObj(<<>>)),
       JDoc(JNull),
       JDoc(JObj(<< KV("zen", JStr("Keep it logically awesome.")), KV("hook_id", JStr("12")),
                    KV("hook", JObj(<< KV("id", JNum(12)), KV("type", JStr("Repository")),
                                       KV("events", JArr(<<JStr("push")>>)),
                                       KV("created_at", JStr(T1)) >>)) >>)),
       JDoc(JObj(<< KV("zen", JStr("Keep it logically awesome.")), KV("hook_id", JNum(12)) >>)),
       JDoc(JObj(<< KV("zen", JNum(5)) >>)),
       JDoc(JArr(<<>>)),
       JDoc(JObj(<< KV("hook", JObj(<< KV("id", JStr("x")) >>)) >>)),
       JDoc(JObj(<< KV("hook", JObj(<< KV("created_at", JStr("soon")) >>)),
                    KV("zen", JStr("late")) >>)),
       JDoc(JObj(<< KV("sender", JObj(<<>>)) >>)) >>

\* Arguments of SubscribeToRepo.
Requests ==
    << [Owner |-> "orijtech", Repo |-> "gcla",
        HookSubscription |-> Ptr([Name |-> "test", Active |-> TRUE,
                                  Events |-> Ptr(<<"issues", "push", "pull_request">>),
                                  Config |-> Ptr([URL |-> "https://hooks.orijtech/gcla-test",
                                                  ContentType |-> "json"])])],
       [Owner |-> "octo", Repo |-> "cat",
        HookSubscription |-> Ptr([Name |-> "", Active |-> FALSE, Events |-> Ptr(<<>>),
                                  Config |-> Ptr(PayloadConfigZero)])],
       [Owner |-> "octo\ncat", Repo |-> "gcla",
        HookSubscription |-> Ptr([Name |-> "web", Active |-> TRUE, Events |-> Nil,
                                  Config |-> Nil])],
       [Owner |-> "orijtech", Repo |-> "gcla", HookSubscription |-> Nil] >>

\* ------------------------------------------------------------ the state

VARIABLES
    client,   \* the Client: how it was made, apiKey, rt, the constructor's error
    mu,       \* Client.mu, a sync.RWMutex
    calls,    \* the goroutines in SubscribeToRepo: position, locals, result;
              \* hops counts the requests handed to the transport, via is the
              \* status of the redirect the current request follows (0: none),
              \* rtSeen the values c.rt held from the call's start to its read,
              \* rtReads the reads of c.rt, used the transports invoked
    setters,  \* the goroutines in SetHTTPRoundTripper: position, argument
    conns     \* the receiver's connections: the /ping request and its response

vars == <<client, mu, calls, setters, conns>>

Calls == 1..NCalls

Setters == 1..NSetters

Conns == 1..NConns

\* The nil http.RoundTripper.
NilRT == "nil"

RoundTrippers == {"rt1"}

\* http.Client uses http.DefaultTransport when its Transport is nil.
Transport(rt) == IF rt = NilRT THEN "http.DefaultTransport" ELSE rt

\* What the environment holds for the variable: unset (Nil) or set to a
\* string.
EnvValues == {Nil, Ptr(""), Ptr("s3cr3t"), Ptr("t0k3n")}

\* otils.EnvOrAlternates(envVar) with no alternates.  The library's code is
\* not part of the sources at hand; by the specification the constructor
\* "reads a single named environment variable holding the API key" and
\* fails "if unset or empty": the value read is the variable's, "" when it
\* is unset.
EnvOrAlternates(e) == IF e.nil THEN "" ELSE e.v

\* otils.StatusOK.  The library's code is not part of the sources at hand;
\* by the specification the failing statuses are the "non-2xx" ones.
StatusOK(code) == code >= 200 /\ code <= 299

NoReq ==
    [Method |-> "", URL |-> [s |-> "", host |-> ""],
     Header |-> [Accept |-> <<>>, Authorization |-> <<>>], Body |-> Nil]

NoRes == [StatusCode |-> 0, Status |-> "", Location |-> "", body |-> 0, readErr |-> FALSE]

IdleCall ==
    [pc |-> "idle", rsr |-> 0, req |-> NoReq, tr |-> NilRT, hops |-> 0,
     stripped |-> FALSE, via |-> 0, rtSeen |-> {}, rtReads |-> 0, used |-> {},
     res |-> NoRes, bodyRead |-> FALSE, decoded |-> FALSE,
     sub |-> Nil, err |-> "", ret |-> ""]

IdleSetter == [pc |-> "idle", rt |-> NilRT]

IdleConn == [pc |-> "idle", body |-> 0, readErr |-> FALSE, err |-> "",
             status |-> 0, out |-> <<>>]

NoClient == [state |-> "none", apiKey |-> "", rt |-> NilRT, err |-> "", env |-> Nil]

Init ==
    /\ client = NoClient
    /\ mu = [readers |-> {}, w |-> 0, writing |-> FALSE]
    /\ calls = [c \in Calls |-> IdleCall]
    /\ setters = [s \in Setters |-> IdleSetter]
    /\ conns = [h \in Conns |-> IdleConn]

\* ------------------------------------------------------------ construction

ErrEnvNotSet == "expecting \"" \o gclaEnvKey \o "\" to have been set in your environment"


\* NewClientFromEnv without its check for an empty key.
NewClientFromEnv_NoCheck(e) ==
    /\ client.state = "none"
    /\ client' = [NoClient EXCEPT !.state = "ready", !.apiKey = EnvOrAlternates(e), !.env = e]
    /\ UNCHANGED <<mu, calls, setters, conns>>

\* NewClientFromEnv, with e what the environment holds for gclaEnvKey.
NewClientFromEnv(e) ==
    /\ client.state = "none"
    /\ LET apiKey == EnvOrAlternates(e)
       IN  client' = IF apiKey = ""
                     THEN [NoClient EXCEPT !.state = "failed", !.err = ErrEnvNotSet, !.env = e]
                     ELSE [NoClient EXCEPT !.state = "ready", !.apiKey = apiKey, !.env = e]
    /\ UNCHANGED <<mu, calls, setters, conns>>

\* new(Client): the zero Client has no credential and no transport.
NewZeroClient ==
    /\ client.state = "none"
    /\ client' = [NoClient EXCEPT !.state = "zero"]
    /\ UNCHANGED <<mu, calls, setters, conns>>

HasClient == client.state \in {"ready", "zero"}

\* ------------------------------------------------------ SetHTTPRoundTripper

\* A goroutine calls SetHTTPRoundTripper(rt).
SetCall(s, rt) ==
    /\ HasClient
    /\ setters[s].pc = "idle"
    /\ setters' = [setters EXCEPT ![s] = [pc |-> "lock", rt |-> rt]]
    /\ UNCHANGED <<client, mu, calls, conns>>

\* c.mu.Lock(), first half: the writer takes the mutex's writer slot, after
\* which no new reader is admitted.
SetLockAnnounce(s) ==
    /\ setters[s].pc = "lock"
    /\ mu.w = 0
    /\ mu' = [mu EXCEPT !.w = s]
    /\ setters' = [setters EXCEPT ![s].pc = "drain"]
    /\ UNCHANGED <<client, calls, conns>>

\* c.mu.Lock(), second half: the writer waits for the readers to leave.
SetLockAcquire(s) ==
    /\ setters[s].pc = "drain"
    /\ mu.readers = {}
    /\ mu' = [mu EXCEPT !.writing = TRUE]
    /\ setters' = [setters EXCEPT ![s].pc = "write"]
    /\ UNCHANGED <<client, calls, conns>>

\* The calls that have started and not yet read the transport record every
\* value the field takes.
NoteRt(cs, rt) ==
    [c \in Calls |-> IF cs[c].pc \in {"rlockKey", "readKey", "runlockKey", "rlockRt", "readRt"}
                     THEN [cs[c] EXCEPT !.rtSeen = @ \cup {rt}]
                     ELSE cs[c]]

\* The client rebuilt around the new transport: *c = Client{rt: rt}.
SetWrite_ResetsClient(s) ==
    /\ setters[s].pc = "write"
    /\ client' = [client EXCEPT !.rt = setters[s].rt, !.apiKey = ""]
    /\ calls' = NoteRt(calls, setters[s].rt)
    /\ setters' = [setters EXCEPT ![s].pc = "unlock"]
    /\ UNCHANGED <<mu, conns>>

\* c.rt = rt
SetWrite(s) ==
    /\ setters[s].pc = "write"
    /\ client' = [client EXCEPT !.rt = setters[s].rt]
    /\ calls' = NoteRt(calls, setters[s].rt)
    /\ setters' = [setters EXCEPT ![s].pc = "unlock"]
    /\ UNCHANGED <<mu, conns>>

\* c.mu.Unlock(), and the return.
SetUnlock(s) ==
    /\ setters[s].pc = "unlock"
    /\ mu' = [mu EXCEPT !.w = 0, !.writing = FALSE]
    /\ setters' = [setters EXCEPT ![s] = IdleSetter]
    /\ UNCHANGED <<client, calls, conns>>

\* ---------------------------------------------------------- SubscribeToRepo

\* url.Parse rejects a URL that holds an ASCII control character.
HasCtl(name) == name \in {"octo\ncat"}


\* The owner and the repository in the wrong order.
FullURL_Swapped(rsr) == baseURL \o "/repos/" \o rsr.Repo \o "/" \o rsr.Owner \o "/hooks"

\* fmt.Sprintf("%s/repos/%s/%s/hooks", baseURL, rsr.Owner, rsr.Repo)
FullURL(rsr) == baseURL \o "/repos/" \o rsr.Owner \o "/" \o rsr.Repo \o "/hooks"

\* strconv.Quote of a name: the new line is written as \n.
QuoteName(name) == IF name = "octo\ncat" THEN "octo\\ncat" ELSE name

\* The *url.Error of url.Parse, which prints the URL quoted.
ErrCtl(rsr) ==
    "parse \"" \o baseURL \o "/repos/" \o QuoteName(rsr.Owner) \o "/" \o QuoteName(rsr.Repo)
        \o "/hooks\": net/url: invalid control character in URL"

\* http.NewRequest(method, url, bytes.NewReader(blob)): the error, and the
\* request with an empty header.
NewRequest(method, rsr, blob) ==
    IF HasCtl(rsr.Owner) \/ HasCtl(rsr.Repo)
    THEN [err |-> ErrCtl(rsr), req |-> NoReq]
    ELSE [err |-> "",
          req |-> [Method |-> method,
                   URL |-> [s |-> FullURL(rsr), host |-> "api.github.com"],
                   Header |-> [Accept |-> <<>>, Authorization |-> <<>>],
                   Body |-> Ptr(blob)]]

AcceptV3 == "application/vnd.github.v3+json"

\* req.Header.Add(name, value)
HeaderAdd(req, name, value) == [req EXCEPT !.Header[name] = Append(@, value)]

\* SubscribeToRepo up to the first lock of doHTTPReq: Marshal, Sprintf,
\* NewRequest, and the Accept header.  json.Marshal cannot fail on a
\* *SubscribeRequest.
SubscribeToRepo(c, i) ==
    /\ HasClient
    /\ calls[c].pc = "idle"
    /\ LET rsr  == Requests[i]
           blob == MarshalSubscribeRequest(rsr.HookSubscription)
           nr   == NewRequest("POST", rsr, blob)
       IN  calls' = [calls EXCEPT ![c] =
                IF nr.err # ""
                THEN [IdleCall EXCEPT !.pc = "done", !.rsr = i, !.err = nr.err, !.ret = "newreq"]
                ELSE [IdleCall EXCEPT !.pc = "rlockKey", !.rsr = i,
                                      !.req = HeaderAdd(nr.req, "Accept", AcceptV3),
                                      !.rtSeen = {client.rt}]]
    /\ UNCHANGED <<client, mu, setters, conns>>

\* c.mu.RLock(): a reader is admitted unless a writer holds or awaits the lock.
RLock(c, at, to) ==
    /\ calls[c].pc = at
    /\ mu.w = 0
    /\ mu' = [mu EXCEPT !.readers = @ \cup {c}]
    /\ calls' = [calls EXCEPT ![c].pc = to]
    /\ UNCHANGED <<client, setters, conns>>

\* c.mu.RUnlock()
RUnlock(c, at, to) ==
    /\ calls[c].pc = at
    /\ mu' = [mu EXCEPT !.readers = @ \ {c}]
    /\ calls' = [calls EXCEPT ![c].pc = to]
    /\ UNCHANGED <<client, setters, conns>>

RLockKey(c) == RLock(c, "rlockKey", "readKey")


\* The Authorization header added whatever the key.
ReadKey_NoEmptyCheck(c) ==
    /\ calls[c].pc = "readKey"
    /\ calls' = [calls EXCEPT ![c].pc = "runlockKey",
                              ![c].req = HeaderAdd(@, "Authorization", "token " \o client.apiKey)]
    /\ UNCHANGED <<client, mu, setters, conns>>

\* if apiKey := c.apiKey; apiKey != "" { req.Header.Add("Authorization", ...) }
ReadKey(c) ==
    /\ calls[c].pc = "readKey"
    /\ LET apiKey == client.apiKey
       IN  calls' = [calls EXCEPT ![c].pc = "runlockKey",
                                  ![c].req = IF apiKey # ""
                                             THEN HeaderAdd(@, "Authorization", "token " \o apiKey)
                                             ELSE @]
    /\ UNCHANGED <<client, mu, setters, conns>>

\* doHTTPReq keeping its read lock across the call of httpClient.
RUnlockKey_Nested(c) ==
    /\ calls[c].pc = "runlockKey"
    /\ calls' = [calls EXCEPT ![c].pc = "rlockRt"]
    /\ UNCHANGED <<client, mu, setters, conns>>

RUnlockKey(c) == RUnlock(c, "runlockKey", "rlockRt")


\* httpClient reading c.rt without taking the lock.
RLockRt_NoLock(c) ==
    /\ calls[c].pc = "rlockRt"
    /\ calls' = [calls EXCEPT ![c].pc = "readRt"]
    /\ UNCHANGED <<client, mu, setters, conns>>

\* httpClient: c.mu.RLock()
RLockRt(c) == RLock(c, "rlockRt", "readRt")


\* httpClient building its http.Client without the transport.
ReadRt_Default(c) ==
    /\ calls[c].pc = "readRt"
    /\ calls' = [calls EXCEPT ![c].pc = "runlockRt", ![c].tr = NilRT, ![c].rtReads = @ + 1]
    /\ UNCHANGED <<client, mu, setters, conns>>

\* httpClient: var rt http.RoundTripper = c.rt
ReadRt(c) ==
    /\ calls[c].pc = "readRt"
    /\ calls' = [calls EXCEPT ![c].pc = "runlockRt", ![c].tr = client.rt,
                              ![c].rtReads = @ + 1]
    /\ UNCHANGED <<client, mu, setters, conns>>

\* httpClient: c.mu.RUnlock(); return &http.Client{Transport: rt}
RUnlockRt(c) == RUnlock(c, "runlockRt", "send")

\* ------------------------------------------------------------ http.Client.Do

\* http.Client's default redirect policy stops after 10 requests.
RedirectLimit == 10

IsRedirect(code) == code \in {301, 302, 303, 307, 308}

\* redirectBehavior: 301, 302 and 303 turn a POST into a GET without body;
\* 307 and 308 repeat the method of the request that was answered and
\* include the body of the first request.
RedirectMethod(method, code) ==
    IF code \in {301, 302, 303} /\ method \notin {"GET", "HEAD"} THEN "GET" ELSE method

IncludeBody(code) == code \in {307, 308}

\* The URL a Location header resolves to.
LocationURL(loc) ==
    CASE loc = "same" -> [s |-> "https://api.github.com/repositories/1296269/hooks",
                          host |-> "api.github.com"]
      [] loc = "other" -> [s |-> "https://hooks.example.org/hooks",
                           host |-> "hooks.example.org"]
      [] OTHER -> [s |-> "", host |-> ""]

LocationParses(loc) == loc \in {"same", "other"}

\* shouldCopyHeaderOnRedirect for the sensitive headers: the destination is
\* the initial host or a subdomain of it.
IsDomainOrSubdomain(dest, initial) == dest = initial

InitialHost == "api.github.com"

\* url.Error's Op for a method.
Op(method) == IF method = "POST" THEN "Post" ELSE "Get"

\* reqs[0].Method: the method of the first request of a call, the one
\* SubscribeToRepo gives http.NewRequest.
FirstMethod == "POST"

\* The text of a Location header.
LocationHeader(loc) ==
    CASE loc = "same" -> "https://api.github.com/repositories/1296269/hooks"
      [] loc = "other" -> "https://hooks.example.org/hooks"
      [] loc = "bad" -> "%zz"
      [] OTHER -> ""

\* The error of req.URL.Parse for the Location that does not parse.
LocationParseErr(loc) ==
    "parse \"" \o LocationHeader(loc) \o "\": invalid URL escape \"" \o LocationHeader(loc) \o "\""

\* The *url.Error http.Client.Do wraps its errors in: the Op is that of the
\* call's first request, whatever the method a redirect has left.
Uerr(u, msg) == Op(FirstMethod) \o " \"" \o u \o "\": " \o msg

\* The transport's RoundTrip is invoked with the request.
Send(c) ==
    /\ calls[c].pc = "send"
    /\ calls' = [calls EXCEPT ![c].pc = "inflight", ![c].hops = @ + 1,
                              ![c].used = @ \cup {Transport(calls[c].tr)}]
    /\ UNCHANGED <<client, mu, setters, conns>>

\* What the call holds once it has returned: the locals are gone.
Returned(cr, res, bodyRead, decoded, sub, err, ret) ==
    [IdleCall EXCEPT !.pc = "done", !.hops = cr.hops, !.via = cr.via, !.rtReads = cr.rtReads,
                     !.res = res, !.bodyRead = bodyRead, !.decoded = decoded,
                     !.sub = sub, !.err = err, !.ret = ret]


\* A transport error answered with a second attempt.
TransportFail_Retry(c, msg) ==
    /\ calls[c].pc = "inflight"
    /\ calls' = [calls EXCEPT ![c] =
                    IF @.hops < 2 THEN [@ EXCEPT !.pc = "send"]
                    ELSE Returned(@, NoRes, FALSE, FALSE, Nil, Uerr(calls[c].req.URL.s, msg), "do")]
    /\ UNCHANGED <<client, mu, setters, conns>>

\* RoundTrip returns an error: Do returns it, doHTTPReq and SubscribeToRepo
\* pass it on.
TransportFail(c, msg) ==
    /\ calls[c].pc = "inflight"
    /\ calls' = [calls EXCEPT ![c] =
                    Returned(@, NoRes, FALSE, FALSE, Nil, Uerr(calls[c].req.URL.s, msg), "do")]
    /\ UNCHANGED <<client, mu, setters, conns>>

\* reqs[0].GetBody(): http.NewRequest sets GetBody for the *bytes.Reader, a
\* new reader over the blob SubscribeToRepo marshalled for the call.
GetBody(cr) == Ptr(MarshalSubscribeRequest(Requests[cr.rsr].HookSubscription))

\* Do follows the redirect r: the next request goes to the Location, with
\* the headers of the first one, less Authorization once a redirect has left
\* the initial host.  A 307 or 308 takes its body from the first request's
\* GetBody, whatever the request that was answered carried: a GET made by
\* an earlier 301, 302 or 303 is followed by a GET with the body again.
FollowRedirect(c, r) ==
    /\ calls[c].pc = "inflight"
    /\ IsRedirect(r.StatusCode)
    /\ LocationParses(r.Location)
    /\ calls[c].hops < RedirectLimit
    /\ LET cr    == calls[c]
           u     == LocationURL(r.Location)
           strip == cr.stripped \/ ~IsDomainOrSubdomain(u.host, InitialHost)
       IN  calls' = [calls EXCEPT ![c].pc = "send", ![c].stripped = strip,
                        ![c].via = r.StatusCode,
                        ![c].req = [Method |-> RedirectMethod(cr.req.Method, r.StatusCode),
                                    URL |-> u,
                                    Header |-> [Accept |-> cr.req.Header.Accept,
                                                Authorization |->
                                                    IF strip THEN <<>>
                                                    ELSE cr.req.Header.Authorization],
                                    Body |-> IF IncludeBody(r.StatusCode) THEN GetBody(cr)
                                             ELSE Nil]]
    /\ UNCHANGED <<client, mu, setters, conns>>

\* Do gives up on the redirect r: its Location does not parse (the error
\* names the request that was answered), or ten requests were sent (the
\* error names the Location).
RedirectFail(c, r) ==
    /\ calls[c].pc = "inflight"
    /\ IsRedirect(r.StatusCode)
    /\ r.Location # ""
    /\ ~LocationParses(r.Location) \/ calls[c].hops >= RedirectLimit
    /\ calls' = [calls EXCEPT ![c] =
                    Returned(@, NoRes, FALSE, FALSE, Nil,
                             IF ~LocationParses(r.Location)
                             THEN Uerr(calls[c].req.URL.s,
                                       "failed to parse Location header \""
                                           \o LocationHeader(r.Location) \o "\": "
                                           \o LocationParseErr(r.Location))
                             ELSE Uerr(LocationHeader(r.Location), "stopped after 10 redirects"),
                             "do")]
    /\ UNCHANGED <<client, mu, setters, conns>>


\* A blank check on the identifier alone.
DeepEqualBlank_IDOnly(rec) == rec.ID = 0

\* reflect.DeepEqual(subs, blankSubscription)
DeepEqualBlank(rec) == rec = blankSubscription

\* The error of json.Unmarshal dropped: the blank check decides alone.
SubscribeToRepoDecode_IgnoreDecodeError(cr, r) ==
    LET u == Decoded[r.body]
    IN  IF DeepEqualBlank(u.rec)
        THEN Returned(cr, r, TRUE, TRUE, Nil, errBlankSubscription, "blank")
        ELSE Returned(cr, r, TRUE, TRUE, Ptr(u.rec), "", "ok")

\* The record returned beside the error of json.Unmarshal.
SubscribeToRepoDecode_PartialEscapes(cr, r) ==
    LET u == Decoded[r.body]
    IN  IF u.err # "" THEN Returned(cr, r, TRUE, TRUE, Ptr(u.rec), u.err, "unmarshal")
        ELSE IF DeepEqualBlank(u.rec)
             THEN Returned(cr, r, TRUE, TRUE, Nil, errBlankSubscription, "blank")
             ELSE Returned(cr, r, TRUE, TRUE, Ptr(u.rec), "", "ok")

\* SubscribeToRepo from the return of doHTTPReq: Unmarshal, the blank check.
SubscribeToRepoDecode(cr, r) ==
    LET u == Decoded[r.body]
    IN  IF u.err # "" THEN Returned(cr, r, TRUE, TRUE, Nil, u.err, "unmarshal")
        ELSE IF DeepEqualBlank(u.rec)
             THEN Returned(cr, r, TRUE, TRUE, Nil, errBlankSubscription, "blank")
             ELSE Returned(cr, r, TRUE, TRUE, Ptr(u.rec), "", "ok")


\* doHTTPReq without its status check.
DoHTTPReqResponse_NoStatusCheck(cr, r) ==
    IF r.readErr THEN Returned(cr, r, TRUE, FALSE, Nil, "unexpected EOF", "read")
    ELSE SubscribeToRepoDecode(cr, r)

\* doHTTPReq reading the body before it looks at the status.
DoHTTPReqResponse_ReadFirst(cr, r) ==
    IF r.readErr THEN Returned(cr, r, TRUE, FALSE, Nil, "unexpected EOF", "read")
    ELSE IF ~StatusOK(r.StatusCode) THEN Returned(cr, r, TRUE, FALSE, Nil, r.Status, "status")
    ELSE SubscribeToRepoDecode(cr, r)

\* doHTTPReq from the return of Do with the response r, and the rest of
\* SubscribeToRepo.
DoHTTPReqResponse(cr, r) ==
    IF ~StatusOK(r.StatusCode) THEN Returned(cr, r, FALSE, FALSE, Nil, r.Status, "status")
    ELSE IF r.readErr THEN Returned(cr, r, TRUE, FALSE, Nil, "unexpected EOF", "read")
    ELSE SubscribeToRepoDecode(cr, r)

\* The decoded record kept in one variable that every call shares: a call
\* that succeeds overwrites the record of the calls that returned before it.
Respond_SharedSubs(c, r) ==
    /\ calls[c].pc = "inflight"
    /\ ~IsRedirect(r.StatusCode) \/ r.Location = ""
    /\ LET out == DoHTTPReqResponse(calls[c], r)
       IN  calls' = [d \in Calls |->
                        IF d = c THEN out
                        ELSE IF calls[d].pc = "done" /\ ~calls[d].sub.nil /\ ~out.sub.nil
                             THEN [calls[d] EXCEPT !.sub = out.sub]
                             ELSE calls[d]]
    /\ UNCHANGED <<client, mu, setters, conns>>

\* Do returns the response r: it is no redirect, or it names no Location.
Respond(c, r) ==
    /\ calls[c].pc = "inflight"
    /\ ~IsRedirect(r.StatusCode) \/ r.Location = ""
    /\ calls' = [calls EXCEPT ![c] = DoHTTPReqResponse(@, r)]
    /\ UNCHANGED <<client, mu, setters, conns>>

\* The caller takes the result; the goroutine may call again.
Return(c) ==
    /\ calls[c].pc = "done"
    /\ calls' = [calls EXCEPT ![c] = IdleCall]
    /\ UNCHANGED <<client, mu, setters, conns>>

\* ----------------------------------------------------- what a transport returns

\* The status line of a response.
StatusLine(code) ==
    CASE code = 199 -> "199 status code 199"
      [] code = 200 -> "200 OK"
      [] code = 201 -> "201 Created"
      [] code = 299 -> "299 status code 299"
      [] code = 300 -> "300 Multiple Choices"
      [] code = 302 -> "302 Found"
      [] code = 307 -> "307 Temporary Redirect"
      [] code = 404 -> "404 Not Found"
      [] OTHER -> "500 Internal Server Error"

Resp(code, loc, b, rerr) ==
    [StatusCode |-> code, Status |-> StatusLine(code), Location |-> loc,
     body |-> b, readErr |-> rerr]

\* 201 with every body; the ends of 2xx; bodies that break off, under a 2xx
\* and under a 404; the statuses around 2xx with an empty and with a valid
\* body; redirects with each kind of Location.
Responses ==
    {Resp(201, "", b, FALSE) : b \in 1..Len(Bodies)}
    \cup {Resp(code, "", b, FALSE) : code \in {200, 299}, b \in {3, ValidBody}}
    \cup {Resp(201, "", ValidBody, TRUE), Resp(201, "", EmptyBody, TRUE),
          Resp(404, "", EmptyBody, TRUE)}
    \cup {Resp(code, "", b, FALSE) : code \in {199, 300, 404, 500}, b \in {EmptyBody, ValidBody}}
    \cup {Resp(code, loc, ValidBody, FALSE) : code \in {302, 307},
                                              loc \in {"", "same", "other", "bad"}}

\* The responses the concurrent specification draws from.
FewResponses ==
    {Resp(201, "", ValidBody, FALSE), Resp(201, "", 3, FALSE), Resp(404, "", ValidBody, FALSE),
     Resp(302, "bad", ValidBody, FALSE)}

TransportErrors == {"dial tcp: connection refused"}

\* ------------------------------------------------------------ the receiver

\* A request for /ping arrives; b is its body, rerr whether reading it fails.
PingArrive(h, b, rerr) ==
    /\ conns[h].pc = "idle"
    /\ conns' = [conns EXCEPT ![h] = [IdleConn EXCEPT !.pc = "parse", !.body = b,
                                                      !.readErr = rerr]]
    /\ UNCHANGED <<client, mu, calls, setters>>

\* parseRequest: ioutil.ReadAll's error, or json.Unmarshal's.
parseRequest(b, rerr) == IF rerr THEN "unexpected EOF" ELSE UnmarshalPing(PingBodies[b]).err

\* http.Error(w, error, code): the status, and the error followed by a new line.
HttpError(cn, error, code) == [cn EXCEPT !.status = code, !.out = <<error, "\n">>]

StatusBadRequest == 400


\* pong dropping the parse error.
pong_IgnoreError(h) ==
    /\ conns[h].pc = "parse"
    /\ conns' = [conns EXCEPT ![h] = [@ EXCEPT !.pc = "done", !.status = 200,
                                        !.err = parseRequest(conns[h].body, conns[h].readErr)]]
    /\ UNCHANGED <<client, mu, calls, setters>>

\* pong: a parse error is answered with http.Error; otherwise the handler
\* returns without writing, and net/http answers 200 with no body.
pong(h) ==
    /\ conns[h].pc = "parse"
    /\ LET err == parseRequest(conns[h].body, conns[h].readErr)
       IN  conns' = [conns EXCEPT ![h] =
                IF err # ""
                THEN HttpError([@ EXCEPT !.pc = "done", !.err = err], err, StatusBadRequest)
                ELSE [@ EXCEPT !.pc = "done", !.status = 200]]
    /\ UNCHANGED <<client, mu, calls, setters>>

\* The response is sent and the connection serves its next request.
PingDone(h) ==
    /\ conns[h].pc = "done"
    /\ conns' = [conns EXCEPT ![h] = IdleConn]
    /\ UNCHANGED <<client, mu, calls, setters>>

\* ------------------------------------------------------------ specifications

\* One goroutine calls SubscribeToRepo, with every sample request and
\* response, while SetHTTPRoundTripper runs beside it.
Next ==
    \/ \E e \in EnvValues : NewClientFromEnv(e)
    \/ NewZeroClient
    \/ \E s \in Setters, rt \in RoundTrippers \cup {NilRT} : SetCall(s, rt)
    \/ \E s \in Setters : SetLockAnnounce(s)
    \/ \E s \in Setters : SetLockAcquire(s)
    \/ \E s \in Setters : SetWrite(s)
    \/ \E s \in Setters : SetUnlock(s)
    \/ \E i \in 1..Len(Requests) : SubscribeToRepo(1, i)
    \/ RLockKey(1)
    \/ ReadKey(1)
    \/ RUnlockKey(1)
    \/ RLockRt(1)
    \/ ReadRt(1)
    \/ RUnlockRt(1)
    \/ Send(1)
    \/ \E m \in TransportErrors : TransportFail(1, m)
    \/ \E r \in Responses : FollowRedirect(1, r)
    \/ \E r \in Responses : RedirectFail(1, r)
    \/ \E r \in Responses : Respond(1, r)
    \/ Return(1)

Spec == Init /\ [][Next]_vars

\* Several goroutines call SubscribeToRepo at once, with a few responses,
\* none of which Do follows as a redirect.
ConcNext ==
    \/ \E e \in {Nil, Ptr("s3cr3t")} : NewClientFromEnv(e)
    \/ \E s \in Setters, rt \in RoundTrippers \cup {NilRT} : SetCall(s, rt)
    \/ \E s \in Setters : SetLockAnnounce(s)
    \/ \E s \in Setters : SetLockAcquire(s)
    \/ \E s \in Setters : SetWrite(s)
    \/ \E s \in Setters : SetUnlock(s)
    \/ \E c \in Calls : SubscribeToRepo(c, 1)
    \/ \E c \in Calls : RLockKey(c)
    \/ \E c \in Calls : ReadKey(c)
    \/ \E c \in Calls : RUnlockKey(c)
    \/ \E c \in Calls : RLockRt(c)
    \/ \E c \in Calls : ReadRt(c)
    \/ \E c \in Calls : RUnlockRt(c)
    \/ \E c \in Calls : Send(c)
    \/ \E c \in Calls, m \in TransportErrors : TransportFail(c, m)
    \/ \E c \in Calls, r \in FewResponses : RedirectFail(c, r)
    \/ \E c \in Calls, r \in FewResponses : Respond(c, r)
    \/ \E c \in Calls : Return(c)

ConcSpec == Init /\ [][ConcNext]_vars

\* The receiver serves /ping on its connections.
ServerNext ==
    \/ \E h \in Conns, b \in 1..Len(PingBodies), rerr \in BOOLEAN : PingArrive(h, b, rerr)
    \/ \E h \in Conns : pong(h)
    \/ \E h \in Conns : PingDone(h)

ServerSpec == Init /\ [][ServerNext]_vars

\* The responses the calls that share a client draw from: two different
\* subscriptions, a blank one, an empty body and a 404.
ShareResponses ==
    {Resp(201, "", ValidBody, FALSE), Resp(201, "", 10, FALSE), Resp(201, "", 3, FALSE),
     Resp(201, "", EmptyBody, FALSE), Resp(404, "", ValidBody, FALSE)}

\* Several goroutines call SubscribeToRepo on one client, each with any of
\* the sample requests, and no goroutine calls SetHTTPRoundTripper.
ShareNext ==
    \/ \E e \in {Nil, Ptr("s3cr3t")} : NewClientFromEnv(e)
    \/ NewZeroClient
    \/ \E c \in Calls, i \in 1..Len(Requests) : SubscribeToRepo(c, i)
    \/ \E c \in Calls : RLockKey(c)
    \/ \E c \in Calls : ReadKey(c)
    \/ \E c \in Calls : RUnlockKey(c)
    \/ \E c \in Calls : RLockRt(c)
    \/ \E c \in Calls : ReadRt(c)
    \/ \E c \in Calls : RUnlockRt(c)
    \/ \E c \in Calls : Send(c)
    \/ \E c \in Calls, m \in TransportErrors : TransportFail(c, m)
    \/ \E c \in Calls, r \in ShareResponses : Respond(c, r)
    \/ \E c \in Calls : Return(c)

ShareSpec == Init /\ [][ShareNext]_vars

\* Callers and setters on one client whose transports never return: a call
\* that has handed its request to the transport stays there.
LiveNext ==
    \/ NewClientFromEnv(Ptr("s3cr3t"))
    \/ \E s \in Setters, rt \in RoundTrippers : SetCall(s, rt)
    \/ \E s \in Setters : SetLockAnnounce(s)
    \/ \E s \in Setters : SetLockAcquire(s)
    \/ \E s \in Setters : SetWrite(s)
    \/ \E s \in Setters : SetUnlock(s)
    \/ \E c \in Calls : SubscribeToRepo(c, 1)
    \/ \E c \in Calls : RLockKey(c)
    \/ \E c \in Calls : ReadKey(c)
    \/ \E c \in Calls : RUnlockKey(c)
    \/ \E c \in Calls : RLockRt(c)
    \/ \E c \in Calls : ReadRt(c)
    \/ \E c \in Calls : RUnlockRt(c)
    \/ \E c \in Calls : Send(c)

\* The steps of a caller that wait for nothing: the scheduler runs them.
CallRuns(c) == ReadKey(c) \/ RUnlockKey(c) \/ ReadRt(c) \/ RUnlockRt(c) \/ Send(c)

\* The steps of a setter past the writer slot; the wait for the readers to
\* leave stays enabled once it is, no reader being admitted meanwhile.
SetRuns(s) == SetLockAcquire(s) \/ SetWrite(s) \/ SetUnlock(s)

\* The scheduler is fair to every goroutine, and sync.Mutex hands the writer
\* slot to a waiter that has waited long: a setter that can take the slot
\* again and again does take it.  Nothing makes a caller call, and nothing
\* is assumed of the order in which waiting readers are admitted.
LiveSpec ==
    /\ Init
    /\ [][LiveNext]_vars
    /\ \A c \in Calls : WF_vars(CallRuns(c))
    /\ \A s \in Setters : WF_vars(SetRuns(s)) /\ SF_vars(SetLockAnnounce(s))

\* ------------------------------------------------------------------ claims

\* The record the body Bodies[ValidBody] holds, field by field.
ValidSubscription ==
    [ID |-> 1, URL |-> "https://api.github.com/repos/orijtech/gcla/hooks/1",
     TestURL |-> "https://api.github.com/repos/orijtech/gcla/hooks/1/test",
     PingURL |-> "https://api.github.com/repos/orijtech/gcla/hooks/1/pings",
     Name |-> "web", Events |-> Ptr(<<"push", "issues">>), Active |-> TRUE,
     Config |-> Ptr([URL |-> "https://hooks.orijtech/gcla-test", ContentType |-> "json"]),
     UpdatedAt |-> Ptr(T2), CreatedAt |-> Ptr(T1)]

\* The call has returned having received a 2xx response whose body was read
\* in full.
GotBody(cr) ==
    /\ cr.pc = "done"
    /\ cr.res.StatusCode \in 200..299
    /\ ~cr.res.readErr

\* C1: for every 2xx response whose body is valid JSON for a non-blank
\* Subscription, SubscribeToRepo returns a nil error and a Subscription
\* equal, field by field, to what the body decodes to.
C1_DecodedSubscriptionReturned ==
    \A c \in Calls :
        LET cr == calls[c]
        IN  (GotBody(cr)
             /\ Decoded[cr.res.body].err = ""
             /\ Decoded[cr.res.body].rec # blankSubscription)
            => /\ cr.err = ""
               /\ cr.sub = Ptr(Decoded[cr.res.body].rec)
               /\ (cr.res.body = ValidBody => cr.sub = Ptr(ValidSubscription))
               /\ (cr.res.body = 10 => cr.sub = Ptr([blankSubscription EXCEPT !.ID = 7]))
               /\ (cr.res.body = 14 => cr.sub = Ptr([blankSubscription EXCEPT !.Name = "b",
                                                                             !.Active = TRUE]))

C1_Witness ==
    \E c \in Calls :
        /\ calls[c].pc = "done"
        /\ calls[c].res.StatusCode = 201
        /\ calls[c].res.body = ValidBody
        /\ calls[c].err = ""
        /\ calls[c].sub = Ptr(ValidSubscription)

\* The errors http.Client.Do returns: a *url.Error naming the method and the
\* URL of the request that failed, around the transport's error or the
\* reason a redirect was not followed.
DoErrors ==
    LET urls == {FullURL(Requests[i]) : i \in 1..Len(Requests)}
                \cup {LocationURL(l).s : l \in {"same", "other"}}
    IN  {"Post \"" \o u \o "\": " \o msg :
            u \in urls,
            msg \in TransportErrors
                    \cup {"failed to parse Location header \"%zz\": "
                              \o "parse \"%zz\": invalid URL escape \"%zz\""}}
        \cup {"Post \"" \o u \o "\": stopped after 10 redirects" :
                u \in {"https://api.github.com/repositories/1296269/hooks",
                       "https://hooks.example.org/hooks"}}

\* The call has received the response, whose status is outside 200..299,
\* and has failed with its status line, returning no Subscription and
\* leaving the body unread and undecoded.
FailedWithStatus(cr, code, status) ==
    (code < 200 \/ code > 299)
    => /\ cr.pc = "done"
       /\ cr.err = status
       /\ cr.err # ""
       /\ cr.sub = Nil
       /\ ~cr.bodyRead
       /\ ~cr.decoded

\* C2 as stated: for every response whose status is outside 200..299,
\* SubscribeToRepo fails with the response's status line as the error text
\* and returns no Subscription, and the body is neither read nor decoded,
\* also when it is valid Subscription JSON: so it is for the response the
\* call ends with and for the response its current request was sent in
\* answer to.
C2_EveryNonOKResponseFails ==
    \A c \in Calls :
        LET cr == calls[c]
        IN  /\ (cr.pc = "done" /\ cr.res # NoRes)
               => FailedWithStatus(cr, cr.res.StatusCode, cr.res.Status)
            /\ cr.via # 0 => FailedWithStatus(cr, cr.via, StatusLine(cr.via))

\* C2, amended: for every response http.Client.Do returns to doHTTPReq whose
\* status is outside 200..299, SubscribeToRepo fails with the response's
\* status line and returns no Subscription, and the body is neither read
\* nor decoded.  The responses Do does not return are the redirects (301,
\* 302, 303, 307, 308) that name a Location: Do answers them with a request
\* to the Location, and the call ends as its last response decides, or with
\* the error of Do, no Subscription and no body read when the Location does
\* not parse or ten requests were sent.
C2_NonOKStatusFails ==
    \A c \in Calls :
        LET cr == calls[c]
        IN  /\ (cr.pc = "done" /\ cr.res # NoRes)
               => /\ FailedWithStatus(cr, cr.res.StatusCode, cr.res.Status)
                  /\ IsRedirect(cr.res.StatusCode) => cr.res.Location = ""
            /\ cr.via # 0
               => /\ IsRedirect(cr.via)
                  /\ cr.hops >= IF cr.pc = "send" THEN 1 ELSE 2
                  /\ cr.pc \in {"send", "inflight", "done"}
            /\ (cr.pc = "done" /\ cr.res = NoRes /\ cr.ret = "do")
               => /\ cr.err \in DoErrors
                  /\ cr.sub = Nil
                  /\ ~cr.bodyRead
                  /\ ~cr.decoded

C2_Witness ==
    \E c \in Calls :
        /\ calls[c].pc = "done"
        /\ calls[c].via = 302
        /\ calls[c].hops = 2
        /\ calls[c].res.StatusCode = 404
        /\ calls[c].res.body = ValidBody
        /\ calls[c].err = "404 Not Found"
        /\ calls[c].sub = Nil
        /\ ~calls[c].bodyRead

\* Every field of the Subscription is empty: 0, "", false, no events, nil.
AllFieldsEmpty(rec) ==
    /\ rec.ID = 0 /\ rec.URL = "" /\ rec.TestURL = "" /\ rec.PingURL = "" /\ rec.Name = ""
    /\ (rec.Events.nil \/ rec.Events.v = <<>>)
    /\ ~rec.Active
    /\ rec.Config.nil /\ rec.UpdatedAt.nil /\ rec.CreatedAt.nil

\* C3: whenever a 2xx body decodes to a Subscription whose every field is
\* empty, SubscribeToRepo fails with "no subscription could be parsed" and
\* returns no Subscription; so it never succeeds with a Subscription all of
\* whose fields are empty.
C3_EmptySubscriptionRejected ==
    \A c \in Calls :
        LET cr == calls[c]
        IN  /\ (GotBody(cr)
                /\ Decoded[cr.res.body].err = ""
                /\ AllFieldsEmpty(Decoded[cr.res.body].rec))
               => (cr.err = errBlankSubscription /\ cr.sub = Nil)
            /\ (cr.pc = "done" /\ ~cr.sub.nil) => ~AllFieldsEmpty(cr.sub.v)

\* C4 as stated: every request handed to the transport carries Accept:
\* application/vnd.github.v3+json, and Authorization: token <key> if and
\* only if the credential is non-empty.
C4_EveryRequestAuthorized ==
    \A c \in Calls :
        calls[c].pc = "inflight"
        => /\ calls[c].req.Header.Accept = <<"application/vnd.github.v3+json">>
           /\ calls[c].req.Header.Authorization =
                  IF client.apiKey # "" THEN <<"token " \o client.apiKey>> ELSE <<>>

\* C4, amended: every request handed to the transport carries the Accept
\* header; the first request of a call, and every later one so long as no
\* redirect has left api.github.com, carries Authorization: token <key> if
\* and only if the credential is non-empty; no request carries another
\* Authorization value, and none carries one when the credential is empty.
C4_HeadersOnRequests ==
    \A c \in Calls :
        calls[c].pc = "inflight"
        => /\ calls[c].req.Header.Accept = <<"application/vnd.github.v3+json">>
           /\ calls[c].req.Header.Authorization \in {<<>>, <<"token " \o client.apiKey>>}
           /\ client.apiKey = "" => calls[c].req.Header.Authorization = <<>>
           /\ (client.apiKey # "" /\ ~calls[c].stripped)
              => calls[c].req.Header.Authorization = <<"token " \o client.apiKey>>
           /\ calls[c].hops = 1 => ~calls[c].stripped
           /\ calls[c].stripped => calls[c].via \in {301, 302, 303, 307, 308}

C4_Witness ==
    \E c \in Calls :
        /\ calls[c].pc = "inflight"
        /\ calls[c].hops = 1
        /\ client.apiKey = "s3cr3t"
        /\ calls[c].req.Header.Authorization = <<"token s3cr3t">>
        /\ calls[c].req.Header.Accept = <<"application/vnd.github.v3+json">>

ErrEnvText == "expecting \"GCLA_GITHUB_API_KEY\" to have been set in your environment"

\* C5: NewClientFromEnv fails, with an error naming GCLA_GITHUB_API_KEY and
\* no client, whenever the variable is unset or empty, and whenever it is
\* non-empty it succeeds with that value as the credential.
C5_EnvKeyDecidesConstruction ==
    client.state \in {"ready", "failed"}
    => IF client.env.nil \/ client.env = Ptr("")
       THEN client.state = "failed" /\ client.err = ErrEnvText /\ client.apiKey = ""
       ELSE client.state = "ready" /\ client.err = "" /\ client.apiKey = client.env.v

C5_Witness ==
    /\ client.state = "ready"
    /\ client.env = Ptr("t0k3n")
    /\ client.apiKey = "t0k3n"
    /\ client.err = ""

\* C6 as stated: each call to SubscribeToRepo invokes the transport at most
\* once, whatever the outcome.
C6_AtMostOneRequest == \A c \in Calls : calls[c].hops <= 1

\* C6, amended: a call hands the transport one request, and one more only
\* for each redirect (301, 302, 303, 307, 308 with a Location that parses)
\* http.Client follows, ten at most; no failure causes a further request,
\* and a call that fails before its request is built sends none.
C6_OneRequestPerHop ==
    \A c \in Calls :
        LET cr == calls[c]
        IN  /\ cr.hops <= 10
            /\ cr.pc \in {"idle", "rlockKey", "readKey", "runlockKey", "rlockRt", "readRt",
                          "runlockRt"} => cr.hops = 0
            /\ (cr.pc = "send" /\ cr.via = 0) => cr.hops = 0
            /\ (cr.pc = "inflight" /\ cr.via = 0) => cr.hops = 1
            /\ cr.hops >= 2 => cr.via \in {301, 302, 303, 307, 308}
            /\ (cr.pc = "done" /\ cr.ret = "newreq") => cr.hops = 0
            /\ (cr.pc = "done" /\ cr.ret # "newreq" /\ cr.via = 0) => cr.hops = 1

C6_Witness ==
    \E c \in Calls :
        /\ calls[c].pc = "done"
        /\ calls[c].ret = "do"
        /\ calls[c].via = 0
        /\ calls[c].hops = 1

\* C7: a call during which the transport field held the one value rt (set by
\* a SetHTTPRoundTripper that had returned, and not replaced since) sends its
\* requests through rt; when that value is nil (never set, or set to nil) it
\* sends them through the default transport.
C7_SendsThroughSetTransport ==
    \A c \in Calls :
        calls[c].pc = "inflight"
        => /\ calls[c].rtSeen = {"rt1"} => calls[c].used = {"rt1"}
           /\ calls[c].rtSeen = {"nil"} => calls[c].used = {"http.DefaultTransport"}

C7_Witness ==
    \E c \in Calls :
        /\ calls[c].pc = "inflight"
        /\ calls[c].rtSeen = {"rt1"}
        /\ calls[c].used = {"rt1"}
        /\ client.rt = "rt1"
        /\ \A s \in Setters : setters[s].pc = "idle"

\* C8: every access to the transport field is made with the client's lock
\* held (shared for the read, exclusive for the replacement); a request
\* reads the field exactly once, its round trip uses that one value, which
\* the field held at some moment of the call, and no request is executed
\* by two transports.
C8_TransportFieldGuarded ==
    /\ \A c \in Calls :
        LET cr == calls[c]
        IN  /\ cr.pc = "readRt" => (c \in mu.readers /\ ~mu.writing)
            /\ cr.pc \in {"runlockRt", "send", "inflight", "done"} /\ cr.ret # "newreq"
               => cr.rtReads = 1
            /\ cr.pc \in {"runlockRt", "send", "inflight"} => cr.tr \in cr.rtSeen
            /\ cr.pc = "inflight" => cr.used = {Transport(cr.tr)}
            /\ Cardinality(cr.used) <= 1
    /\ \A s \in Setters :
        setters[s].pc = "write" => (mu.w = s /\ mu.writing /\ mu.readers = {})

C8_Witness ==
    \E c \in Calls :
        /\ calls[c].pc = "inflight"
        /\ calls[c].tr = "rt1"
        /\ calls[c].used = {"rt1"}
        /\ client.rt = "nil"
        /\ \E d \in Calls : d # c /\ calls[d].pc = "inflight" /\ calls[d].used = {"http.DefaultTransport"}

\* The /ping bodies that are not valid JSON for a ping record.
BadPingBodies == {1, 2, 6, 7, 8, 9, 10}

\* C9: for every request to /ping whose body cannot be read or is not valid
\* JSON for a ping record, the receiver answers 400 with the error's text as
\* the body.
C9_BadPingIs400 ==
    \A h \in Conns :
        (conns[h].pc = "done" /\ (conns[h].readErr \/ conns[h].body \in BadPingBodies))
        => /\ conns[h].status = 400
           /\ conns[h].err # ""
           /\ Head(conns[h].out) = conns[h].err
           /\ (~conns[h].readErr /\ conns[h].body \in {1, 2})
              => conns[h].err = PingBodies[conns[h].body].err

C9_Witness ==
    \E h \in Conns :
        /\ conns[h].pc = "done"
        /\ conns[h].body = 6
        /\ ~conns[h].readErr
        /\ conns[h].status = 400
        /\ conns[h].out = <<"json: cannot unmarshal number into Go struct field "
                                \o "pingPayload.hook_id of type string", "\n">>

\* The member of the object o named k, or Nil.
Member(o, k) ==
    LET at == {i \in 1..Len(o) : o[i].k = k}
    IN  IF at = {} THEN Nil ELSE Ptr(o[CHOOSE i \in at : TRUE].v)

\* The object o holds the configuration hs: each of name, active, events and
\* config (url, content_type) with the caller's value, an empty value being
\* left out, and nothing else.
Carries(o, hs) ==
    /\ \A i \in 1..Len(o) : o[i].k \in {"name", "active", "events", "config"}
    /\ \A i, j \in 1..Len(o) : o[i].k = o[j].k => i = j
    /\ Member(o, "name") = IF hs.Name = "" THEN Nil ELSE Ptr([t |-> "str", s |-> hs.Name])
    /\ Member(o, "active") = IF hs.Active THEN Ptr([t |-> "bool", b |-> TRUE]) ELSE Nil
    /\ IF hs.Events.nil \/ hs.Events.v = <<>> THEN Member(o, "events") = Nil
       ELSE /\ ~Member(o, "events").nil
            /\ Member(o, "events").v.t = "arr"
            /\ Len(Member(o, "events").v.a) = Len(hs.Events.v)
            /\ \A i \in 1..Len(hs.Events.v) :
                   Member(o, "events").v.a[i] = [t |-> "str", s |-> hs.Events.v[i]]
    /\ IF hs.Config.nil THEN Member(o, "config") = Nil
       ELSE /\ ~Member(o, "config").nil
            /\ Member(o, "config").v.t = "obj"
            /\ LET co == Member(o, "config").v.o
               IN  /\ \A i \in 1..Len(co) : co[i].k \in {"url", "content_type"}
                   /\ Member(co, "url") = IF hs.Config.v.URL = "" THEN Nil
                                          ELSE Ptr([t |-> "str", s |-> hs.Config.v.URL])
                   /\ Member(co, "content_type") =
                          IF hs.Config.v.ContentType = "" THEN Nil
                          ELSE Ptr([t |-> "str", s |-> hs.Config.v.ContentType])

\* The request is the POST to the hooks of rsr's repository with rsr's
\* configuration as its body.
IsThePost(req, rsr) ==
    /\ req.Method = "POST"
    /\ req.URL.s = "https://api.github.com/repos/" \o rsr.Owner \o "/" \o rsr.Repo \o "/hooks"
    /\ ~req.Body.nil
    /\ req.Body.v.ok
    /\ req.Body.v.v.t = "obj"
    /\ Carries(req.Body.v.v.o, rsr.HookSubscription.v)

\* C10 as stated: for every RepoSubscribeRequest with a non-nil configuration,
\* the single request SubscribeToRepo sends is the POST to
\* https://api.github.com/repos/o/r/hooks whose body is the JSON encoding of
\* the configuration: every request the call hands to the transport is it.
C10_EveryRequestIsThePost ==
    \A c \in Calls :
        (calls[c].pc = "inflight" /\ ~Requests[calls[c].rsr].HookSubscription.nil)
        => IsThePost(calls[c].req, Requests[calls[c].rsr])

\* C10, amended: the first request a call hands to the transport is that
\* POST; the requests that follow a redirect go to its Location.
C10_FirstRequestIsThePost ==
    \A c \in Calls :
        (calls[c].pc = "inflight" /\ calls[c].hops = 1
         /\ ~Requests[calls[c].rsr].HookSubscription.nil)
        => IsThePost(calls[c].req, Requests[calls[c].rsr])

C10_Witness ==
    \E c \in Calls :
        /\ calls[c].pc = "inflight"
        /\ calls[c].hops = 1
        /\ calls[c].rsr = 2
        /\ calls[c].req.Method = "POST"
        /\ calls[c].req.URL.s = "https://api.github.com/repos/octo/cat/hooks"
        /\ calls[c].req.Body = Ptr(JDoc(JObj(<<KV("config", JObj(<<>>))>>)))

\* C11 as stated: a 2xx response whose body has zero bytes is rejected with
\* "no subscription could be parsed", the error given for a body that
\* decodes to an all-empty Subscription.
C11_EmptyBodyIsBlankError ==
    \A c \in Calls :
        LET cr == calls[c]
        IN  (GotBody(cr) /\ cr.res.body = EmptyBody)
            => (cr.err = errBlankSubscription /\ cr.sub = Nil)

\* C11, amended: a 2xx response whose body has zero bytes is rejected with
\* the error of json.Unmarshal, "unexpected end of JSON input", before the
\* blank check is reached; "no subscription could be parsed" is the error
\* for a body that decodes without error to the zero Subscription.
C11_EmptyBodyIsDecodeError ==
    \A c \in Calls :
        LET cr == calls[c]
        IN  /\ (GotBody(cr) /\ cr.res.body = EmptyBody)
               => /\ cr.err = "unexpected end of JSON input"
                  /\ cr.err # errBlankSubscription
                  /\ cr.sub = Nil
                  /\ cr.ret = "unmarshal"
            /\ (GotBody(cr) /\ cr.res.body \in {3, 4, 9})
               => /\ cr.err = errBlankSubscription
                  /\ cr.sub = Nil
                  /\ cr.ret = "blank"

C11_Witness ==
    \E c \in Calls :
        /\ calls[c].pc = "done"
        /\ calls[c].res.StatusCode = 201
        /\ calls[c].res.body = EmptyBody
        /\ ~calls[c].res.readErr
        /\ calls[c].bodyRead
        /\ calls[c].err = "unexpected end of JSON input"

\* The check that ends a call with the response r, by the order of the code:
\* the status, the read of the body, the decoding, the blank check.
FirstFailure(r) ==
    IF r.StatusCode < 200 \/ r.StatusCode > 299 THEN "status"
    ELSE IF r.readErr THEN "read"
    ELSE IF Decoded[r.body].err # "" THEN "unmarshal"
    ELSE IF Decoded[r.body].rec = blankSubscription THEN "blank"
    ELSE "ok"

\* The steps a call that ended at the check k has executed: the body was
\* read, the body was decoded.
StepsDone(cr, k) ==
    CASE k \in {"newreq", "do"} -> cr.res = NoRes /\ ~cr.bodyRead /\ ~cr.decoded
      [] k = "status" -> ~cr.bodyRead /\ ~cr.decoded
      [] k = "read" -> cr.bodyRead /\ ~cr.decoded
      [] OTHER -> cr.bodyRead /\ cr.decoded

\* The checks of a call agree with the order of the code: the call ended at
\* the first check that applies, executed no later step, and reports that
\* check's error.
InOrder(cr) ==
    /\ cr.ret \in {"newreq", "do", "status", "read", "unmarshal", "blank", "ok"}
    /\ (cr.err = "") <=> (cr.ret = "ok")
    /\ StepsDone(cr, cr.ret)
    /\ cr.ret = "newreq" => cr.hops = 0
    /\ cr.ret = "do" => (cr.hops >= 1 /\ cr.err \in DoErrors)
    /\ cr.ret \notin {"newreq", "do"}
       => /\ cr.hops >= 1
          /\ cr.res # NoRes
          /\ cr.ret = FirstFailure(cr.res)
    /\ cr.ret = "status" => cr.err = cr.res.Status
    /\ cr.ret = "read" => cr.err = "unexpected EOF"
    /\ cr.ret = "unmarshal" => cr.err = Decoded[cr.res.body].err
    /\ cr.ret = "blank" => cr.err = errBlankSubscription

\* C12 as stated: the failure checks are applied in the order transport
\* error, non-2xx status, body read error, JSON decode error, blank
\* subscription; the first that applies is reported and no later step is
\* executed; so every failed call ends at one of these five checks.
C12_FiveChecksInOrder ==
    \A c \in Calls :
        calls[c].pc = "done"
        => /\ InOrder(calls[c])
           /\ calls[c].err # ""
              => calls[c].ret \in {"do", "status", "read", "unmarshal", "blank"}

\* C12, amended: the order starts with the construction of the request, whose
\* error (a URL that does not parse) ends the call before anything is sent;
\* then come the error of http.Client.Do, the non-2xx status, the body read
\* error, the JSON decode error and the blank check.  The first that applies
\* is reported, no later step is executed, and the errors of Do and of the
\* decoding are returned as they were received.
C12_ChecksInOrder ==
    \A c \in Calls :
        calls[c].pc = "done"
        => /\ InOrder(calls[c])
           /\ calls[c].err # ""
              => calls[c].ret \in {"newreq", "do", "status", "read", "unmarshal", "blank"}

C12_Witness ==
    \E c \in Calls :
        /\ calls[c].pc = "done"
        /\ calls[c].res = Resp(404, "", EmptyBody, TRUE)
        /\ calls[c].ret = "status"
        /\ calls[c].err = "404 Not Found"
        /\ ~calls[c].bodyRead
        /\ ~calls[c].decoded

\* C15: every return of SubscribeToRepo yields exactly one of a Subscription
\* and an error: a failed call returns a nil Subscription, also when the
\* decoding failed after it had stored some fields, and a successful call
\* returns a nil error and a non-nil Subscription.
C15_SubscriptionXorError ==
    \A c \in Calls :
        calls[c].pc = "done"
        => /\ (calls[c].err # "") <=> calls[c].sub.nil
           /\ calls[c].ret = "ok" => (calls[c].err = "" /\ ~calls[c].sub.nil)
           /\ calls[c].ret # "ok" => (calls[c].err # "" /\ calls[c].sub = Nil)

C15_Witness ==
    \E c \in Calls :
        /\ calls[c].pc = "done"
        /\ calls[c].res.StatusCode = 201
        /\ calls[c].res.body = 11
        /\ calls[c].decoded
        /\ UnmarshalSubscription(Bodies[11]).rec.ID = 3
        /\ UnmarshalSubscription(Bodies[11]).rec.CreatedAt = Ptr("0001-01-01T00:00:00Z")
        /\ calls[c].err = "parsing time \"yesterday\" as \"2006-01-02T15:04:05Z07:00\": "
                              \o "cannot parse \"yesterday\" as \"2006\""
        /\ calls[c].sub = Nil

\* The credential is the one the construction stored: the value read from
\* the environment variable for NewClientFromEnv, none for the zero Client.
CredentialAsConstructed ==
    /\ client.state = "ready" => (client.apiKey = EnvOrAlternates(client.env)
                                  /\ client.apiKey # "")
    /\ client.state \in {"zero", "failed", "none"} => client.apiKey = ""

\* A step of an existing client leaves the credential alone, changes the
\* transport only in SetHTTPRoundTripper's assignment and to its argument,
\* and changes nothing of the client in a step of SubscribeToRepo.
ClientFrame ==
    client.state # "none"
    => /\ client'.apiKey = client.apiKey
       /\ client'.state = client.state
       /\ client'.env = client.env
       /\ client'.rt # client.rt
          => \E s \in Setters : /\ setters[s].pc = "write"
                                /\ setters'[s].pc = "unlock"
                                /\ client'.rt = setters[s].rt
       /\ (\E c \in Calls : calls'[c].pc # calls[c].pc) => client' = client

\* C16 as stated: the credential is fixed at construction, and therefore
\* every request sent by a client built with NewClientFromEnv carries
\* Authorization: token <key> with the key read at construction.
C16_EveryRequestCarriesKey ==
    /\ CredentialAsConstructed
    /\ \A c \in Calls :
        (client.state = "ready" /\ calls[c].pc = "inflight")
        => calls[c].req.Header.Authorization = <<"token " \o EnvOrAlternates(client.env)>>

\* C16, amended: the credential is fixed at construction, SetHTTPRoundTripper
\* changes only the transport and SubscribeToRepo changes neither; therefore
\* the first request of every call of a client built with NewClientFromEnv
\* carries Authorization: token <key>, and so does each request that follows
\* a redirect until a redirect leaves api.github.com, after which none does.
C16_CredentialFixed ==
    /\ [](/\ CredentialAsConstructed
          /\ \A c \in Calls :
              (client.state = "ready" /\ calls[c].pc = "inflight")
              => /\ calls[c].hops = 1 => ~calls[c].stripped
                 /\ calls[c].req.Header.Authorization =
                        IF calls[c].stripped THEN <<>>
                        ELSE <<"token " \o EnvOrAlternates(client.env)>>)
    /\ [][ClientFrame]_vars

C16_Witness ==
    \E c \in Calls :
        /\ client.env = Ptr("t0k3n")
        /\ client.rt = "rt1"
        /\ calls[c].pc = "inflight"
        /\ calls[c].hops = 2
        /\ calls[c].via = 307
        /\ ~calls[c].stripped
        /\ calls[c].req.Header.Authorization = <<"token t0k3n">>

\* The request a call with the argument rsr builds when it runs alone on a
\* client whose credential is key.
SoloRequest(rsr, key) ==
    [Method |-> "POST",
     URL |-> [s |-> "https://api.github.com/repos/" \o rsr.Owner \o "/" \o rsr.Repo \o "/hooks",
              host |-> "api.github.com"],
     Header |-> [Accept |-> <<"application/vnd.github.v3+json">>,
                 Authorization |-> IF key = "" THEN <<>> ELSE <<"token " \o key>>],
     Body |-> Ptr(MarshalSubscribeRequest(rsr.HookSubscription))]

\* What a call that received the response r returns when it runs alone.
SoloOutcome(r) ==
    LET k == FirstFailure(r)
        u == Decoded[r.body]
    IN  CASE k = "status" -> [sub |-> Nil, err |-> r.Status]
          [] k = "read" -> [sub |-> Nil, err |-> "unexpected EOF"]
          [] k = "unmarshal" -> [sub |-> Nil, err |-> u.err]
          [] k = "blank" -> [sub |-> Nil, err |-> "no subscription could be parsed"]
          [] OTHER -> [sub |-> Ptr(u.rec), err |-> ""]

\* A call holds its own request, sends it through the client's transport,
\* and returns what its own response gives.
OwnOutcome(c) ==
    LET cr == calls[c]
    IN  /\ cr.pc \in {"runlockKey", "rlockRt", "readRt", "runlockRt", "send", "inflight"}
           => cr.req = SoloRequest(Requests[cr.rsr], client.apiKey)
        /\ cr.pc \in {"send", "inflight"} => cr.tr = client.rt
        /\ cr.pc = "inflight" => cr.used = {Transport(client.rt)}
        /\ (cr.pc = "done" /\ cr.res # NoRes)
           => (cr.sub = SoloOutcome(cr.res).sub /\ cr.err = SoloOutcome(cr.res).err)
        /\ (cr.pc = "done" /\ cr.res = NoRes) => (cr.sub = Nil /\ cr.err # "")

\* A step of a call changes that call alone: no other call's request,
\* response or result, and nothing of the client; a transport error is
\* reported for the call's own request.
OwnStep ==
    \A c \in Calls :
        calls'[c] # calls[c]
        => /\ \A d \in Calls \ {c} : calls'[d] = calls[d]
           /\ client' = client
           /\ (calls[c].pc = "inflight" /\ calls'[c].ret = "do")
              => \E m \in TransportErrors :
                     calls'[c].err = "Post \"" \o SoloRequest(Requests[calls[c].rsr],
                                                                client.apiKey).URL.s
                                         \o "\": " \o m

\* C13: when several SubscribeToRepo calls run at once on one client and no
\* SetHTTPRoundTripper runs, each call's outcome is the one it would have
\* alone with the same request and the same response: the calls share only
\* the transport and the credential, which no call modifies, and no call's
\* request, response or result reaches another call, in any interleaving.
C13_CallsIndependent ==
    /\ [](\A c \in Calls : OwnOutcome(c))
    /\ [][OwnStep]_vars

C13_Witness ==
    /\ calls[1].pc = "inflight"
    /\ calls[1].rsr = 2
    /\ calls[1].req.URL.s = "https://api.github.com/repos/octo/cat/hooks"
    /\ calls[2].pc = "done"
    /\ calls[2].hops = 1
    /\ calls[2].sub = Ptr(ValidSubscription)
    /\ calls[2].err = ""

\* A caller holds the read lock only between an RLock and its RUnlock: not
\* before the first, not between the two reads, not from the moment the
\* http.Client is built.
LockOnlyAroundReads ==
    \A c \in Calls :
        /\ calls[c].pc \in {"idle", "rlockKey", "rlockRt", "send", "inflight", "done"}
           => c \notin mu.readers
        /\ calls[c].pc \in {"readKey", "runlockKey", "readRt", "runlockRt"}
           => c \in mu.readers

\* Some goroutine inside SetHTTPRoundTripper or inside the locking part of
\* SubscribeToRepo can take its next step.
SomeoneRuns ==
    \/ \E c \in Calls : ENABLED (RLockKey(c) \/ RLockRt(c) \/ CallRuns(c))
    \/ \E s \in Setters : ENABLED (SetLockAnnounce(s) \/ SetRuns(s))

\* No deadlock: while a goroutine is inside SetHTTPRoundTripper or between
\* the start of a call and its transport, one of them can step.
NoDeadlock ==
    (\/ \E s \in Setters : setters[s].pc # "idle"
     \/ \E c \in Calls : calls[c].pc \notin {"idle", "inflight", "done"})
    => SomeoneRuns

\* C14: the client never holds its lock while a request is in flight: both
\* reads release the shared lock before the transport is invoked and are
\* never nested.  Hence no interleaving of SetHTTPRoundTripper and
\* SubscribeToRepo calls deadlocks, and under fair scheduling every
\* SetHTTPRoundTripper terminates, also while calls are blocked in a
\* transport that never returns.
C14_LockFreeInFlight ==
    /\ []LockOnlyAroundReads
    /\ []NoDeadlock
    /\ \A s \in Setters : (setters[s].pc # "idle") ~> (setters[s].pc = "idle")

C14_Witness ==
    /\ \A c \in Calls : calls[c].pc = "inflight" /\ calls[c].tr = NilRT
    /\ mu.readers = {}
    /\ \E s \in Setters : /\ setters[s].pc = "unlock"
                          /\ mu.w = s
                          /\ mu.writing
    /\ client.rt = "rt1"

====
